---- MODULE Spec2Model ----
(***************************************************************************)
(* Model of the company-information bot of src/Lab2/bot.py and             *)
(* src/Lab3/bot.py: the JSON store (load_data / save_data), the /start     *)
(* subscribe handler, the scheduler (schedule_jobs) and the two job        *)
(* callbacks (send_daily_digest / send_event_reminder).                    *)
(*                                                                         *)
(* Conventions.                                                            *)
(*  - A Python dict is a function whose DOMAIN is its set of keys; the     *)
(*    insertion order of the persisted document's keys, which json.dump    *)
(*    writes them in, is carried next to it as a sequence of keys.         *)
(*  - d.get(k, default) is Get(d, k, default).                             *)
(*  - An optional value (x or None) is a sequence of length <= 1:          *)
(*    None is << >>, the value v is <<v>>.                                 *)
(*  - A time string is the sequence of its characters, so that strptime    *)
(*    is modelled by what it accepts and returns.                          *)
(*  - The Cyrillic weekday labels of the source are written in Latin       *)
(*    transliteration (the module is ASCII): "Ponedelnik" is the source's  *)
(*    Monday label, ..., "Voskresene" its Sunday label.                    *)
(*  - A decimal digit outside ASCII is written by a name: "ar3" is the     *)
(*    Arabic-Indic digit three (U+0663), "fw5" the fullwidth digit five    *)
(*    (U+FF15).                                                            *)
(***************************************************************************)
EXTENDS Integers, Sequences, FiniteSets, TLC

VARIABLES
    variant,    \* which of the two source files runs: "Lab2" or "Lab3"
    files,      \* the file system: DATA_FILE and DATA_FILE + ".tmp"
    pc,         \* "boot" before build_application, "running" after
    triggers,   \* the job queue: the sequence of run_daily registrations
    cmd,        \* the /start handler in progress (updates are handled one at a time)
    io,         \* the save_data call in progress, at file-operation granularity
    fire,       \* the job callback in progress
    sent,       \* the send_message attempts of that callback, in order
    faults      \* whether the writes and renames of save_data may raise in this run

vars == <<variant, files, pc, triggers, cmd, io, fire, sent, faults>>

---------------------------------------------------------------------------
(* Bounds of the model *)

\* number of distinct chats that may send /start
NumChats == 2
\* longest events list of the scheduling specification
MaxEvents == 3

---------------------------------------------------------------------------
(* Program constants *)

REMINDER_MINUTES == 15
DIGEST_HOUR == 9
DIGEST_MINUTE == 0
\* chat_id when the update has no effective chat (None in the source)
NoChat == 0

Variants == {"Lab2", "Lab3"}

ChatIds == {111 * i : i \in 1..NumChats}

None == << >>
Some(v) == <<v>>

EmptyDict == [k \in {} |-> 0]

\* dict.get(key, default)
Get(d, k, default) == IF k \in DOMAIN d THEN d[k] ELSE default

\* dict.get(key): None when the key is absent
GetOpt(d, k) == IF k \in DOMAIN d THEN Some(d[k]) ELSE None

---------------------------------------------------------------------------
(* Weekday tables *)

\* The seven labels of the source, Monday first.
WeekdayLabels ==
    <<"Ponedelnik", "Vtornik", "Sreda", "Chetverg", "Pyatnica", "Subbota", "Voskresene">>

\* weekday_ru(dt): dt.weekday() (Monday=0 ... Sunday=6) to its label
weekday_ru_shifted(wd) == WeekdayLabels[((wd + 1) % 7) + 1]

weekday_ru(wd) == WeekdayLabels[wd + 1]

\* ru_to_py_weekday(ru) of Lab2, the weekdays dict of Lab3: mapping[ru];
\* a label outside the table raises KeyError (ok = FALSE).
ru_to_py_weekday(ru) ==
    IF \E i \in 1..7 : WeekdayLabels[i] = ru
    THEN [ok |-> TRUE, v |-> (CHOOSE i \in 1..7 : WeekdayLabels[i] = ru) - 1]
    ELSE [ok |-> FALSE, v |-> 0]

\* ev.get("day", <default>): "" in Lab2, the Monday label in Lab3
DayDefault(v) == IF v = "Lab2" THEN "" ELSE "Ponedelnik"

---------------------------------------------------------------------------
(* datetime.strptime(s, "%H:%M") *)

\* The ASCII digits, which the classes [0-3], [0-1] and [0-5] of the regular
\* expressions range over.
Digits == <<"0", "1", "2", "3", "4", "5", "6", "7", "8", "9">>

\* Decimal digits of two other scripts: \d of a str pattern matches every
\* Unicode decimal digit, and int() reads it.
ArabicIndicDigits ==
    <<"ar0", "ar1", "ar2", "ar3", "ar4", "ar5", "ar6", "ar7", "ar8", "ar9">>

FullwidthDigits ==
    <<"fw0", "fw1", "fw2", "fw3", "fw4", "fw5", "fw6", "fw7", "fw8", "fw9">>

DigitTables == {Digits, ArabicIndicDigits, FullwidthDigits}

IsAsciiDigit(c) == \E i \in 1..10 : Digits[i] = c

\* \d
IsDigit(c) == \E t \in DigitTables : \E i \in 1..10 : t[i] = c

\* int(c) of one digit
DigitVal(c) ==
    LET t == CHOOSE t \in DigitTables : \E i \in 1..10 : t[i] = c
    IN  (CHOOSE i \in 1..10 : t[i] = c) - 1

\* %H is the regular expression 2[0-3]|[0-1]\d|\d : "2" and one of "0".."3",
\* or "0" or "1" and any digit, or one digit.  h is the text before the colon.
MatchHour(h) ==
    IF Len(h) = 1 /\ IsDigit(h[1]) THEN [ok |-> TRUE, v |-> DigitVal(h[1])]
    ELSE IF Len(h) = 2 /\ h[1] = "2" /\ IsAsciiDigit(h[2]) /\ DigitVal(h[2]) <= 3
         THEN [ok |-> TRUE, v |-> 20 + DigitVal(h[2])]
    ELSE IF Len(h) = 2 /\ h[1] \in {"0", "1"} /\ IsDigit(h[2])
         THEN [ok |-> TRUE, v |-> DigitVal(h[1]) * 10 + DigitVal(h[2])]
         ELSE [ok |-> FALSE, v |-> 0]

\* %M is [0-5]\d|\d : one of "0".."5" and any digit, or one digit; text left
\* over after the match raises ValueError ("unconverted data remains").
MatchMinute(m) ==
    IF Len(m) = 1 /\ IsDigit(m[1]) THEN [ok |-> TRUE, v |-> DigitVal(m[1])]
    ELSE IF Len(m) = 2 /\ IsAsciiDigit(m[1]) /\ DigitVal(m[1]) <= 5 /\ IsDigit(m[2])
         THEN [ok |-> TRUE, v |-> DigitVal(m[1]) * 10 + DigitVal(m[2])]
         ELSE [ok |-> FALSE, v |-> 0]

\* strptime(s, "%H:%M").time(): the hour and minute, or ValueError (ok = FALSE)
strptime_HM(s) ==
    LET colon == IF Len(s) >= 2 /\ s[2] = ":" THEN 2
                 ELSE IF Len(s) >= 3 /\ s[3] = ":" THEN 3 ELSE 0
    IN  IF colon = 0 THEN [ok |-> FALSE, hour |-> 0, minute |-> 0]
        ELSE LET h == MatchHour(SubSeq(s, 1, colon - 1))
                 m == MatchMinute(SubSeq(s, colon + 1, Len(s)))
             IN  IF h.ok /\ m.ok
                 THEN [ok |-> TRUE, hour |-> h.v, minute |-> m.v]
                 ELSE [ok |-> FALSE, hour |-> 0, minute |-> 0]

\* ev.get("time", "00:00")
TimeDefault == <<"0", "0", ":", "0", "0">>

---------------------------------------------------------------------------
(* Reminder time arithmetic *)

\* dt_dummy - timedelta(minutes=mins), with dt_dummy = now.replace(hour, minute):
\* a datetime relative to today (day 0); the subtraction borrows from the hour
\* and, below 00:00, from the day.
MinusMinutes_noborrow(hour, minute, mins) ==
    [day |-> 0, hour |-> hour,
     minute |-> IF minute >= mins THEN minute - mins ELSE 0]

MinusMinutes(hour, minute, mins) ==
    LET total == hour * 60 + minute - mins
        wrapped == IF total < 0 THEN total + 1440 ELSE total
    IN  [day |-> IF total < 0 THEN -1 ELSE 0,
         hour |-> wrapped \div 60,
         minute |-> wrapped % 60]

---------------------------------------------------------------------------
(* The store: DATA_FILE, json.dump and json.load *)

DATA_FILE == "data.json"

\* tmp_path = DATA_FILE + ".tmp"
tmp_path_direct == "data.json"

tmp_path == "data.json.tmp"

Paths == {"data.json", "data.json.tmp"}

\* A file is absent, or holds a text: the sequence of the chunks json.dump
\* wrote, "{", one chunk per top-level member, "}".
Missing == [exists |-> FALSE, text |-> << >>]

OpenBrace == [key |-> "{", val |-> None]
CloseBrace == [key |-> "}", val |-> None]

\* The top-level keys of the documents the specifications start from, in the
\* order these files list them (dict equality does not depend on the order).
DocKeys == <<"subscribers", "company", "team", "contacts", "events", "digests">>

RECURSIVE Members(_, _)
Members(d, keys) ==
    IF keys = << >> THEN << >>
    ELSE IF Head(keys) \in DOMAIN d
         THEN <<[key |-> Head(keys), val |-> d[Head(keys)]]>> \o Members(d, Tail(keys))
         ELSE Members(d, Tail(keys))

\* json.dump(data, f, ...): the chunks written for the dict d, whose keys
\* were inserted in the order keys
json_dump(d, keys) == <<OpenBrace>> \o Members(d, keys) \o <<CloseBrace>>

\* json.load(f): the dict a text holds, or JSONDecodeError (ok = FALSE) when
\* the text is not one complete object.
json_load(text) ==
    LET n == Len(text)
        wellFormed == /\ n >= 2
                      /\ text[1].key = "{"
                      /\ text[n].key = "}"
                      /\ \A i \in 2..(n - 1) : text[i].key \notin {"{", "}"}
    IN  IF ~wellFormed THEN [ok |-> FALSE, v |-> EmptyDict]
        ELSE [ok |-> TRUE,
              v |-> [k \in {text[i].key : i \in 2..(n - 1)} |->
                        text[CHOOSE i \in 2..(n - 1) :
                                /\ text[i].key = k
                                /\ \A j \in 2..(n - 1) : text[j].key = k => j <= i].val]]

\* load_data() on the file system fs: {} when the file is missing or does not parse
load_data(fs) ==
    IF ~fs[DATA_FILE].exists THEN EmptyDict
    ELSE LET r == json_load(fs[DATA_FILE].text)
         IN  IF r.ok THEN r.v ELSE EmptyDict

\* data[key] = value
DictSet(d, k, v) == [x \in (DOMAIN d) \cup {k} |-> IF x = k THEN v ELSE d[x]]

Range(s) == {s[i] : i \in 1..Len(s)}

\* The insertion order of the dict json.load builds: each key at the place of
\* its first occurrence in the text.
RECURSIVE FirstOccurrences(_)
FirstOccurrences(ks) ==
    IF ks = << >> THEN << >>
    ELSE LET n == Len(ks)
             r == FirstOccurrences(SubSeq(ks, 1, n - 1))
         IN  IF ks[n] \in Range(r) THEN r ELSE Append(r, ks[n])

\* The key order of the dict load_data() returns
load_data_keys(fs) ==
    IF ~fs[DATA_FILE].exists \/ ~json_load(fs[DATA_FILE].text).ok THEN << >>
    ELSE LET text == fs[DATA_FILE].text
         IN  FirstOccurrences([i \in 1..(Len(text) - 2) |-> text[i + 1].key])

\* The key order after data[key] = value: a new key goes last
KeysSet(keys, k) == IF k \in Range(keys) THEN keys ELSE Append(keys, k)

---------------------------------------------------------------------------
(* schedule_jobs *)

AllDays == 0..6

\* jq.run_daily(send_daily_digest, time=time(hour=9, minute=0, tzinfo=tz),
\*              name="daily_digest"): every day of the week, no data
DailyDigestJob ==
    [callback |-> "send_daily_digest",
     hour |-> DIGEST_HOUR, minute |-> DIGEST_MINUTE,
     days |-> AllDays,
     data |-> None,
     name |-> [prefix |-> "daily_digest", weekday |-> None, time |-> None]]

\* The body of the try block for one event: the run_daily registration it
\* makes, or the exception it raises (ok = FALSE).
EventReminder(v, ev) ==
    LET wd == ru_to_py_weekday(Get(ev, "day", DayDefault(v)))
        t == strptime_HM(Get(ev, "time", TimeDefault))
        remind_dt == MinusMinutes(t.hour, t.minute, REMINDER_MINUTES)
    IN  IF wd.ok /\ t.ok
        THEN [ok |-> TRUE,
              job |-> [callback |-> "send_event_reminder",
                       hour |-> remind_dt.hour, minute |-> remind_dt.minute,
                       days |-> {wd.v},
                       data |-> Some([title |-> GetOpt(ev, "title"),
                                      time |-> GetOpt(ev, "time"),
                                      description |-> GetOpt(ev, "description")]),
                       name |-> [prefix |-> "reminder", weekday |-> Some(wd.v),
                                 time |-> GetOpt(ev, "time")]]]
        ELSE [ok |-> FALSE, job |-> DailyDigestJob]

\* The for loop over data.get("events", []): jq is the job queue so far.  An
\* exception of one event is caught and logged, and the loop goes on.
RECURSIVE ScheduleEvents_abort(_, _, _)
ScheduleEvents_abort(v, evs, jq) ==
    IF evs = << >> THEN jq
    ELSE LET r == EventReminder(v, Head(evs))
         IN  IF r.ok THEN ScheduleEvents_abort(v, Tail(evs), Append(jq, r.job))
             ELSE jq

\* jq.run_daily(...) adds a job; a job name is not an identity
RECURSIVE ScheduleEvents_byName(_, _, _)
ScheduleEvents_byName(v, evs, jq) ==
    IF evs = << >> THEN jq
    ELSE LET r == EventReminder(v, Head(evs))
             same == {i \in 1..Len(jq) : jq[i].name = r.job.name}
         IN  ScheduleEvents_byName(v, Tail(evs),
                 IF ~r.ok THEN jq
                 ELSE IF same = {} THEN Append(jq, r.job)
                 ELSE [i \in 1..Len(jq) |-> IF i \in same THEN r.job ELSE jq[i]])

RECURSIVE ScheduleEvents(_, _, _)
ScheduleEvents(v, evs, jq) ==
    IF evs = << >> THEN jq
    ELSE LET r == EventReminder(v, Head(evs))
         IN  ScheduleEvents(v, Tail(evs), IF r.ok THEN Append(jq, r.job) ELSE jq)

\* schedule_jobs(app): the registrations made, in order
schedule_jobs_digest_if_events(v, fs) ==
    LET evs == Get(load_data(fs), "events", << >>)
    IN  IF evs = << >> THEN << >> ELSE ScheduleEvents(v, evs, <<DailyDigestJob>>)

schedule_jobs(v, fs) ==
    ScheduleEvents(v, Get(load_data(fs), "events", << >>), <<DailyDigestJob>>)

---------------------------------------------------------------------------
(* Inputs: the documents and events the specifications start from *)

\* An event dict; a None argument leaves the key out.
MkEvent(day, time, title, description) ==
    [k \in {"title"} \cup (IF day = None THEN {} ELSE {"day"})
                     \cup (IF time = None THEN {} ELSE {"time"})
                     \cup (IF description = None THEN {} ELSE {"description"}) |->
        CASE k = "title" -> title
          [] k = "day" -> day[1]
          [] k = "time" -> time[1]
          [] k = "description" -> description[1]]

HM(a, b, c, d) == <<a, b, ":", c, d>>

\* Time strings: accepted by strptime, before and after 00:15, and rejected;
\* the last four have digits outside ASCII (two are accepted, two rejected).
TimeStrs ==
    { HM("0", "0", "0", "0"), HM("0", "0", "0", "5"), HM("0", "0", "1", "4"),
      HM("0", "0", "1", "5"), HM("0", "9", "1", "0"), HM("1", "0", "0", "0"),
      HM("2", "3", "5", "9"),
      <<"9", ":", "1", "0">>, <<"0", "9", ":", "5">>,
      HM("2", "4", "0", "0"), HM("0", "9", "6", "0"), HM("a", "b", "c", "d"),
      <<"0", "9", "1", "0">>, <<"0", "9", ":", "1", "0", ":", "0", "0">>, << >>,
      <<"ar3", ":", "1">>, HM("0", "ar9", "1", "ar0"), HM("ar2", "ar3", "0", "0"),
      HM("0", "9", "fw5", "9") }

\* Day labels: the seven of the source and one that is not in its tables.
DayStrs == Range(WeekdayLabels) \cup {"Funday"}

\* Every combination of a day (or none) and a time (or none).
FullPool ==
    { MkEvent(d, t, "X", Some("dx")) :
        d \in {Some(l) : l \in DayStrs} \cup {None},
        t \in {Some(x) : x \in TimeStrs} \cup {None} }

EvFriday == MkEvent(Some("Pyatnica"), Some(HM("0", "9", "1", "0")), "A", Some("da"))
EvMonday == MkEvent(Some("Ponedelnik"), Some(HM("0", "0", "0", "5")), "B", None)
EvBadDay == MkEvent(Some("Funday"), Some(HM("1", "0", "0", "0")), "C", Some("dc"))
EvBadTime == MkEvent(Some("Sreda"), Some(HM("2", "4", "0", "0")), "D", Some("dd"))

SmallPool == {EvFriday, EvMonday, EvBadDay, EvBadTime}

\* Events lists of up to MaxEvents entries: lists over SmallPool, with at most
\* one entry, at any position, replaced by any event of FullPool.
SchedEventLists ==
    UNION { [1..n -> SmallPool] : n \in 0..MaxEvents }
    \cup { [l EXCEPT ![p] = e] :
             <<l, p>> \in UNION { [1..n -> SmallPool] \X (1..n) : n \in 1..MaxEvents },
             e \in FullPool }

Digests == [k \in {"Ponedelnik", "Vtornik"} |-> IF k = "Ponedelnik" THEN "Hi" ELSE ""]

\* The keys of the document other than subscribers, events and digests.
BaseDoc == [k \in {"company", "team", "contacts"} |-> k]

FileOf(d) == [exists |-> TRUE, text |-> json_dump(d, DocKeys)]

\* A file cut off after its opening brace: it does not parse.
Corrupt == [exists |-> TRUE, text |-> <<OpenBrace>>]

SchedFiles ==
    {Missing, Corrupt, FileOf(BaseDoc)}
    \cup { FileOf(DictSet(BaseDoc, "events", evs)) : evs \in SchedEventLists }

EventsChoices == {None, Some(<< >>), Some(<<EvFriday>>)}
DigestsChoices == {None, Some(Digests)}

WithOpt(d, k, opt) == IF opt = None THEN d ELSE DictSet(d, k, opt[1])

\* The documents the running bot starts from: no duplicate subscribers.
RunFilesWith(evs) ==
    {Missing, Corrupt}
    \cup { FileOf(WithOpt(WithOpt(WithOpt(BaseDoc, "events", e), "digests", g),
                           "subscribers", s)) :
             e \in evs, g \in DigestsChoices,
             s \in {None, Some(<< >>)} \cup {Some(<<c>>) : c \in ChatIds} }

RunFiles == RunFilesWith(EventsChoices)

\* Those of them that hold no event: the job queue built from them is the
\* daily digest alone.
StoreFiles == RunFilesWith({None, Some(<< >>)})

---------------------------------------------------------------------------
(* State *)

IdleCmd == [pc |-> "idle", chat |-> NoChat, member |-> FALSE, wrote |-> FALSE]

IdleIo == [pc |-> "idle", old |-> EmptyDict, new |-> EmptyDict, keys |-> << >>, n |-> 0]

NoText == [tmpl |-> "none", body |-> "", title |-> None, time |-> None,
           description |-> None]

NoFire == [pc |-> "none", kind |-> "none", job |-> 0, today |-> 0, ran |-> FALSE,
           msg |-> NoText, subs |-> << >>, i |-> 0]

InitWith(fs, fl) ==
    /\ variant \in Variants
    /\ files \in { [p \in Paths |-> IF p = DATA_FILE THEN f ELSE Missing] : f \in fs }
    /\ pc = "boot"
    /\ triggers = << >>
    /\ cmd = IdleCmd
    /\ io = IdleIo
    /\ fire = NoFire
    /\ sent = << >>
    /\ faults = fl

\* build_application(): the handlers are added and schedule_jobs(app) runs once.
BuildApplication ==
    /\ pc = "boot"
    /\ triggers' = schedule_jobs(variant, files)
    /\ pc' = "running"
    /\ UNCHANGED <<variant, files, cmd, io, fire, sent, faults>>

\* A job callback is at its return: its last statement ran and it yields to
\* nothing before it returns (fire.pc is "raised" when an exception leaves it).
Returning == fire.pc \in {"done", "raised"}

---------------------------------------------------------------------------
(* /start *)

\* if chat_id is not None and chat_id not in subscribers
ShouldSubscribe_always(chat, subscribers) == chat # NoChat

ShouldSubscribe(chat, subscribers) == chat # NoChat /\ chat \notin Range(subscribers)

\* subscribers.append(chat_id): the list start writes back
AppendChat(subscribers, chat) == Append(subscribers, chat)

\* start(update, context) up to its call of save_data: load_data, the membership
\* test, the append.  There is no await between load_data and save_data, so no
\* other handler or job runs in between.  cmd.member records whether the chat
\* was in the loaded list, cmd.wrote whether save_data was called.
Start(chat) ==
    /\ pc = "running" /\ cmd.pc = "idle" /\ io.pc = "idle" /\ ~Returning
    /\ LET data == load_data(files)
           subscribers == Get(data, "subscribers", << >>)
       IN  IF ShouldSubscribe(chat, subscribers)
           THEN /\ io' = [pc |-> "open", old |-> data,
                          new |-> DictSet(data, "subscribers", AppendChat(subscribers, chat)),
                          keys |-> KeysSet(load_data_keys(files), "subscribers"),
                          n |-> 0]
                /\ cmd' = [pc |-> "saving", chat |-> chat,
                           member |-> chat \in Range(subscribers), wrote |-> TRUE]
           ELSE /\ io' = io
                /\ cmd' = [pc |-> "reply", chat |-> chat,
                           member |-> chat \in Range(subscribers), wrote |-> FALSE]
    /\ UNCHANGED <<variant, files, pc, triggers, fire, sent, faults>>

\* await update.effective_message.reply_text(text, ...): the greeting
Reply ==
    /\ cmd.pc = "reply" /\ io.pc = "idle" /\ ~Returning
    /\ cmd' = IdleCmd
    /\ UNCHANGED <<variant, files, pc, triggers, io, fire, sent, faults>>

---------------------------------------------------------------------------
(* save_data, one file operation at a time.  Any of them may raise; the      *)
(* except clause logs the error and save_data returns normally.              *)

\* The outcomes of a write or a rename: it succeeds, or (in a run that explores
\* failing file operations) it raises, any number of times.
CanFail == IF faults THEN BOOLEAN ELSE {TRUE}

\* open(tmp_path, "w"): the temporary file is created or truncated
SaveOpen ==
    /\ io.pc = "open"
    /\ \E ok \in BOOLEAN :
          /\ IF ok
             THEN /\ files' = [files EXCEPT ![tmp_path] = [exists |-> TRUE, text |-> << >>]]
                  /\ io' = [io EXCEPT !.pc = "write"]
             ELSE /\ files' = files
                  /\ io' = [io EXCEPT !.pc = "failed"]
    /\ UNCHANGED <<variant, pc, triggers, cmd, fire, sent, faults>>

\* json.dump(data, f, ...): the next chunk reaches the temporary file, or the
\* write fails midway and leaves what was written
SaveWrite ==
    /\ io.pc = "write"
    /\ \E ok \in CanFail :
          /\ IF ok
             THEN /\ files' = [files EXCEPT
                               ![tmp_path].text = Append(@, json_dump(io.new, io.keys)[io.n + 1])]
                  /\ io' = [io EXCEPT !.n = io.n + 1,
                                      !.pc = IF io.n + 1 = Len(json_dump(io.new, io.keys))
                                             THEN "replace" ELSE "write"]
             ELSE /\ files' = files
                  /\ io' = [io EXCEPT !.pc = "failed"]
    /\ UNCHANGED <<variant, pc, triggers, cmd, fire, sent, faults>>

\* os.replace(tmp_path, DATA_FILE): the rename is atomic
SaveReplace ==
    /\ io.pc = "replace"
    /\ \E ok \in CanFail :
          /\ IF ok
             THEN /\ files' = [p \in Paths |->
                               IF p = DATA_FILE THEN files[tmp_path]
                               ELSE IF p = tmp_path THEN Missing ELSE files[p]]
                  /\ io' = [io EXCEPT !.pc = "done"]
             ELSE /\ files' = files
                  /\ io' = [io EXCEPT !.pc = "failed"]
    /\ UNCHANGED <<variant, pc, triggers, cmd, fire, sent, faults>>

\* save_data returns (after os.replace or from its except clause) and start
\* goes on to its reply
SaveReturn ==
    /\ io.pc \in {"done", "failed"}
    /\ io' = IdleIo
    /\ cmd' = [cmd EXCEPT !.pc = "reply"]
    /\ UNCHANGED <<variant, files, pc, triggers, fire, sent, faults>>

---------------------------------------------------------------------------
(* The job callbacks *)

\* digests.get(today_ru) of data.get("digests", {})
DigestMessage(data, today) == GetOpt(Get(data, "digests", EmptyDict), weekday_ru(today))

\* "if not msg": None and the empty string are falsy
NotMsg(msg) == msg = None \/ msg[1] = ""

DigestText(body) ==
    [tmpl |-> "digest", body |-> body, title |-> None, time |-> None,
     description |-> None]

\* f"Napominanie: {title} v {time_str}. {description}" from job.data or {}
ReminderText(job_data) ==
    LET d == IF job_data = None THEN EmptyDict ELSE job_data[1]
    IN  [tmpl |-> "reminder", body |-> "",
         title |-> Get(d, "title", None), time |-> Get(d, "time", None),
         description |-> Get(d, "description", None)]

\* for chat_id in data.get("subscribers", []): the recipients of a fire are
\* the list of the document the callback has just loaded
Recipients(data) == Get(data, "subscribers", << >>)

\* send_daily_digest(context) up to its first send: job j fires on weekday
\* today.  fire.subs is data.get("subscribers", []) of the document loaded at
\* this fire, fire.ran whether the callback got past its guard.
FireDailyDigest(j, today) ==
    /\ pc = "running" /\ io.pc = "idle" /\ fire.pc = "none"
    /\ triggers[j].callback = "send_daily_digest"
    /\ today \in triggers[j].days
    /\ LET data == load_data(files)
           msg == DigestMessage(data, today)
           subs == Recipients(data)
       IN  fire' = [pc |-> IF ~NotMsg(msg) /\ subs # << >> THEN "sending" ELSE "done",
                    kind |-> "digest", job |-> j, today |-> today,
                    ran |-> ~NotMsg(msg),
                    msg |-> IF NotMsg(msg) THEN NoText ELSE DigestText(msg[1]),
                    subs |-> subs, i |-> 0]
    /\ sent' = << >>
    /\ UNCHANGED <<variant, files, pc, triggers, cmd, io, faults>>

\* "if not events_data: return" of send_event_reminder
ReminderGuard_none(events_data) == TRUE

ReminderGuard(events_data) == events_data # << >>

\* send_event_reminder(context) up to its first send
FireEventReminder(j, today) ==
    /\ pc = "running" /\ io.pc = "idle" /\ fire.pc = "none"
    /\ triggers[j].callback = "send_event_reminder"
    /\ today \in triggers[j].days
    /\ LET data == load_data(files)
           go == ReminderGuard(Get(data, "events", << >>))
           subs == Recipients(data)
       IN  fire' = [pc |-> IF go /\ subs # << >> THEN "sending" ELSE "done",
                    kind |-> "reminder", job |-> j, today |-> today,
                    ran |-> go,
                    msg |-> IF go THEN ReminderText(triggers[j].data) ELSE NoText,
                    subs |-> subs, i |-> 0]
    /\ sent' = << >>
    /\ UNCHANGED <<variant, files, pc, triggers, cmd, io, faults>>

\* The for loop after one send_message: the except clause logs a failure and
\* the loop goes on to the next subscriber.
AfterSend_propagate(f, ok) ==
    IF ok
    THEN [f EXCEPT !.i = f.i + 1,
                   !.pc = IF f.i + 1 = Len(f.subs) THEN "done" ELSE "sending"]
    ELSE [f EXCEPT !.pc = "raised"]

AfterSend(f, ok) ==
    [f EXCEPT !.i = f.i + 1,
              !.pc = IF f.i + 1 = Len(f.subs) THEN "done" ELSE "sending"]

\* await context.bot.send_message(chat_id=chat_id, text=...): it succeeds or raises
SendMessage ==
    /\ fire.pc = "sending" /\ io.pc = "idle"
    /\ \E ok \in BOOLEAN :
          /\ sent' = Append(sent, [chat |-> fire.subs[fire.i + 1], text |-> fire.msg,
                                   ok |-> ok])
          /\ fire' = AfterSend(fire, ok)
    /\ UNCHANGED <<variant, files, pc, triggers, cmd, io, faults>>

\* The callback returns to the job queue, which waits for the next fire.
FireReturn ==
    /\ Returning
    /\ fire' = NoFire
    /\ sent' = << >>
    /\ UNCHANGED <<variant, files, pc, triggers, cmd, io, faults>>

---------------------------------------------------------------------------
(* The data file is maintained outside the bot: no command writes events or  *)
(* digests, and load_data provides for a file that is missing or unparseable.*)

WithoutKeys(d, ks) == [k \in (DOMAIN d) \ ks |-> d[k]]

EditedFiles(d) ==
    LET base == IF DOMAIN d = {} THEN BaseDoc ELSE WithoutKeys(d, {"events", "digests"})
    IN  {Missing, Corrupt}
        \cup { FileOf(WithOpt(WithOpt(base, "events", e), "digests", g)) :
                 e \in EventsChoices, g \in DigestsChoices }

\* A hand edit that leaves a syntax error: the text loses its closing brace
\* and keeps every member; and the edit that puts the brace back.
DamagedFile(f) == [exists |-> TRUE, text |-> SubSeq(f.text, 1, Len(f.text) - 1)]

RepairedFile(f) == [exists |-> TRUE, text |-> Append(f.text, CloseBrace)]

HandEdits(f) ==
    IF ~f.exists \/ Len(f.text) < 2 THEN {}
    ELSE IF json_load(f.text).ok THEN {DamagedFile(f)}
    ELSE IF json_load(RepairedFile(f).text).ok THEN {RepairedFile(f)}
    ELSE {}

\* data.json is edited, deleted or damaged by hand while the bot runs, at any
\* moment: no lock is taken between the load_data and the os.replace of a
\* /start, nor while a callback awaits send_message.
ExternalEdit ==
    /\ pc = "running"
    /\ \E f \in EditedFiles(load_data(files)) \cup HandEdits(files[DATA_FILE]) :
          /\ f # files[DATA_FILE]
          /\ files' = [files EXCEPT ![DATA_FILE] = f]
    /\ UNCHANGED <<variant, pc, triggers, cmd, io, fire, sent, faults>>

---------------------------------------------------------------------------
(* The running bot *)

\* The bot with its handlers and jobs.  open() may fail at any save; failing
\* writes and renames, which leave a temporary file behind, are explored by
\* StoreSpec.
Init == InitWith(RunFiles, FALSE)

Next ==
    \/ BuildApplication
    \/ \E chat \in ChatIds \cup {NoChat} : Start(chat)
    \/ Reply
    \/ SaveOpen
    \/ SaveWrite
    \/ SaveReplace
    \/ SaveReturn
    \/ \E j \in 1..Len(triggers), today \in AllDays : FireDailyDigest(j, today)
    \/ \E j \in 1..Len(triggers), today \in AllDays : FireEventReminder(j, today)
    \/ SendMessage
    \/ FireReturn
    \/ ExternalEdit

Spec == Init /\ [][Next]_vars

---------------------------------------------------------------------------
(* The store specification: /start and save_data with failing file           *)
(* operations, and edits of the data file from outside at any point of a     *)
(* /start.  It starts from the documents without events; the others are      *)
(* reached by the edits.                                                     *)

StoreInit == InitWith(StoreFiles, TRUE)

StoreNext ==
    \/ BuildApplication
    \/ \E chat \in ChatIds \cup {NoChat} : Start(chat)
    \/ Reply
    \/ SaveOpen
    \/ SaveWrite
    \/ SaveReplace
    \/ SaveReturn
    \/ ExternalEdit

StoreSpec == StoreInit /\ [][StoreNext]_vars

---------------------------------------------------------------------------
(* The scheduling specification: schedule_jobs on every document of SchedFiles *)

SchedInit == InitWith(SchedFiles, FALSE)

SchedNext == BuildApplication

SchedSpec == SchedInit /\ [][SchedNext]_vars

---------------------------------------------------------------------------
(* Vocabulary of the properties, stated without the operators of the model *)

\* The events list of the persisted document.
PersistedEvents == Get(load_data(files), "events", << >>)

\* Monday=0 ... Sunday=6
WeekdayIndexOf(label) ==
    CASE label = "Ponedelnik" -> 0
      [] label = "Vtornik" -> 1
      [] label = "Sreda" -> 2
      [] label = "Chetverg" -> 3
      [] label = "Pyatnica" -> 4
      [] label = "Subbota" -> 5
      [] label = "Voskresene" -> 6
      [] OTHER -> -1

TwoDigits(n) == <<Digits[(n \div 10) + 1], Digits[(n % 10) + 1]>>

\* The ways an hour or a minute is written: zero-padded, and bare below 10.
Written(n) == IF n < 10 THEN {TwoDigits(n), <<Digits[n + 1]>>} ELSE {TwoDigits(n)}

\* The position of the first colon of s, 0 when it has none.
ColonAt(s) ==
    IF \E i \in 1..Len(s) : s[i] = ":"
    THEN CHOOSE i \in 1..Len(s) : s[i] = ":" /\ \A j \in 1..(i - 1) : s[j] # ":"
    ELSE 0

\* The hours (minutes) a text may be read as: at most one.
HoursRead(x) == {h \in 0..23 : x \in Written(h)}
MinutesRead(x) == {m \in 0..59 : x \in Written(m)}

\* s is an hour and a minute of the 24-hour clock separated by a colon.
IsClockString(s) ==
    /\ ColonAt(s) > 0
    /\ HoursRead(SubSeq(s, 1, ColonAt(s) - 1)) # {}
    /\ MinutesRead(SubSeq(s, ColonAt(s) + 1, Len(s))) # {}

\* The minute of the day a clock string names.
MinuteOfDay(s) ==
    (CHOOSE h \in HoursRead(SubSeq(s, 1, ColonAt(s) - 1)) : TRUE) * 60
    + (CHOOSE m \in MinutesRead(SubSeq(s, ColonAt(s) + 1, Len(s))) : TRUE)

\* A well-formed event: a recognized weekday label and a valid clock time.
WellFormed(ev) ==
    /\ "day" \in DOMAIN ev /\ WeekdayIndexOf(ev["day"]) >= 0
    /\ "time" \in DOMAIN ev /\ IsClockString(ev["time"])

\* s has a decimal digit of a script other than ASCII.
OtherScript(s) ==
    \E i \in 1..Len(s) : s[i] \in Range(ArabicIndicDigits) \cup Range(FullwidthDigits)

\* A malformed event: a label outside the seven, or a time that is no clock
\* time in any script.
Malformed(ev) ==
    \/ "day" \in DOMAIN ev /\ WeekdayIndexOf(ev["day"]) < 0
    \/ "time" \in DOMAIN ev /\ ~IsClockString(ev["time"]) /\ ~OtherScript(ev["time"])

LacksKey(ev) == "day" \notin DOMAIN ev \/ "time" \notin DOMAIN ev

\* An event the properties count neither as well-formed nor as malformed: it
\* lacks a key, or writes its time with digits of another script.
Unsettled(ev) ==
    LacksKey(ev) \/ ("time" \in DOMAIN ev /\ OtherScript(ev["time"]))

PayloadOf(ev) ==
    [title |-> GetOpt(ev, "title"), time |-> GetOpt(ev, "time"),
     description |-> GetOpt(ev, "description")]

\* What identifies a registration: callback, weekdays, fire time and payload.
Core(t) ==
    [callback |-> t.callback, days |-> t.days, hour |-> t.hour, minute |-> t.minute,
     data |-> t.data]

\* The reminder of a well-formed event at weekday offset back (0: its own day,
\* 1: the day before), 15 minutes before its time on the 24-hour clock.
ReminderFor(ev, back) ==
    LET at == (MinuteOfDay(ev["time"]) + 1440 - 15) % 1440
    IN  [callback |-> "send_event_reminder",
         days |-> {(WeekdayIndexOf(ev["day"]) + 7 - back) % 7},
         hour |-> at \div 60, minute |-> at % 60,
         data |-> Some(PayloadOf(ev))]

Registered(x) == {j \in 1..Len(triggers) : Core(triggers[j]) = x}

EventsWhere(P(_)) == {k \in 1..Len(PersistedEvents) : P(PersistedEvents[k])}

---------------------------------------------------------------------------
(* Properties of schedule_jobs (specification SchedSpec) *)

\* C1: an event earlier than 00:15 gets its reminder 15 minutes before it on
\* the 24-hour clock, on the weekday BEFORE the event's weekday.
C1_EarlyEventRemindsPreviousWeekday ==
    pc = "running" =>
        \A k \in 1..Len(PersistedEvents) :
            LET ev == PersistedEvents[k]
            IN  (WellFormed(ev) /\ MinuteOfDay(ev["time"]) < 15)
                    => Registered(ReminderFor(ev, 1)) # {}

\* C2: every well-formed event at or after 00:15 has exactly one weekly trigger
\* of its own: on its weekday, 15 minutes before its time, carrying its title,
\* time and description.  (Registrations are counted: n equal events have n
\* equal triggers; an event that lacks a key may add one more.)
C2_LateEventRemindsSameWeekday ==
    pc = "running" =>
        \A k \in 1..Len(PersistedEvents) :
            LET ev == PersistedEvents[k]
                Same(e) == WellFormed(e) /\ ReminderFor(e, 0) = ReminderFor(ev, 0)
                n == Cardinality(Registered(ReminderFor(ev, 0)))
            IN  (WellFormed(ev) /\ MinuteOfDay(ev["time"]) >= 15)
                    => /\ n >= Cardinality(EventsWhere(Same))
                       /\ n <= Cardinality(EventsWhere(Same))
                               + Cardinality(EventsWhere(LacksKey))

\* A Friday 09:10 event is scheduled: its trigger is Friday 08:55.
C2_Witness ==
    /\ pc = "running"
    /\ \E k \in 1..Len(PersistedEvents) : PersistedEvents[k] = EvFriday
    /\ \E j \in 1..Len(triggers) :
          /\ triggers[j].days = {4} /\ triggers[j].hour = 8 /\ triggers[j].minute = 55
          /\ triggers[j].data = Some(PayloadOf(EvFriday))

\* C3: a malformed event, at any position, registers nothing for itself and
\* takes nothing from the others: the daily digest is registered, every
\* reminder carries the payload of an event that is not malformed, and each
\* payload has at least as many reminders as well-formed events carry it and
\* at most as many as events that are not malformed carry it.
C3_MalformedEventIsIsolated ==
    pc = "running" =>
        /\ Len(triggers) >= 1 /\ triggers[1].callback = "send_daily_digest"
        /\ \A j \in 2..Len(triggers) :
              /\ triggers[j].callback = "send_event_reminder"
              /\ \E k \in 1..Len(PersistedEvents) :
                    triggers[j].data = Some(PayloadOf(PersistedEvents[k]))
        /\ \A k \in 1..Len(PersistedEvents) :
              LET p == PayloadOf(PersistedEvents[k])
                  Good(e) == PayloadOf(e) = p /\ WellFormed(e)
                  NotBad(e) == PayloadOf(e) = p /\ ~Malformed(e)
                  n == Cardinality({j \in 2..Len(triggers) : triggers[j].data = Some(p)})
              IN  /\ n >= Cardinality(EventsWhere(Good))
                  /\ n <= Cardinality(EventsWhere(NotBad))

\* A malformed event between two well-formed ones: both get their trigger.
C3_Witness ==
    /\ pc = "running"
    /\ PersistedEvents = <<EvFriday, EvBadTime, EvMonday>>
    /\ Len(triggers) = 3
    /\ triggers[2].data = Some(PayloadOf(EvFriday))
    /\ triggers[3].data = Some(PayloadOf(EvMonday))

\* C14: events with the same (day, time) pair are all scheduled: there are at
\* least as many reminder triggers as well-formed events and, when no event
\* of the list lacks a key or writes its time in another script, exactly as
\* many, the i-th reminder carrying the
\* payload of the i-th well-formed event and firing 15 minutes before its
\* time on the 24-hour clock; an equal job name drops or replaces nothing.
C14_DuplicatePairsAllScheduled ==
    pc = "running" =>
        LET good == SelectSeq(PersistedEvents, WellFormed)
            reminders == SubSeq(triggers, 2, Len(triggers))
        IN  /\ Len(reminders) >= Len(good)
            /\ EventsWhere(Unsettled) = {} =>
                  /\ Len(reminders) = Len(good)
                  /\ \A i \in 1..Len(good) :
                        /\ reminders[i].callback = "send_event_reminder"
                        /\ reminders[i].data = Some(PayloadOf(good[i]))
                        /\ reminders[i].hour * 60 + reminders[i].minute
                              = (MinuteOfDay(good[i]["time"]) + 1440 - 15) % 1440

\* Three Friday 09:10 events, the second with a title of its own: three
\* reminders with one job name, each with the payload of its entry.
C14_Witness ==
    /\ pc = "running"
    /\ Len(PersistedEvents) = 3
    /\ PersistedEvents[1] = EvFriday /\ PersistedEvents[3] = EvFriday
    /\ PersistedEvents[2] = MkEvent(Some("Pyatnica"), Some(HM("0", "9", "1", "0")),
                                    "X", Some("dx"))
    /\ Len(triggers) = 4
    /\ triggers[2].name = triggers[3].name /\ triggers[3].name = triggers[4].name
    /\ triggers[2].data = Some(PayloadOf(EvFriday))
    /\ triggers[3].data = Some(PayloadOf(PersistedEvents[2]))
    /\ triggers[4].data = Some(PayloadOf(EvFriday))

\* C16: the two variants are equivalent schedulers: on the same document the
\* schedule_jobs of the other variant registers the same multiset of triggers
\* (weekdays, fire time and payload) as the one that ran, also for events
\* that lack the day or the time key.
C16_VariantsScheduleAlike ==
    pc = "running" =>
        LET other == schedule_jobs(IF variant = "Lab2" THEN "Lab3" ELSE "Lab2", files)
            Occurs(jobs, x) == Cardinality({j \in 1..Len(jobs) : Core(jobs[j]) = x})
        IN  \A x \in {Core(triggers[j]) : j \in 1..Len(triggers)}
                      \cup {Core(other[j]) : j \in 1..Len(other)} :
                Occurs(triggers, x) = Occurs(other, x)

\* C10: whatever the document, exactly one daily digest trigger is registered,
\* at 09:00 on all seven weekdays with no payload; with no events it is the
\* only trigger.
C10_DailyDigestAlwaysRegistered ==
    pc = "running" =>
        /\ Cardinality({j \in 1..Len(triggers) :
                            triggers[j].callback = "send_daily_digest"}) = 1
        /\ \A j \in 1..Len(triggers) :
              triggers[j].callback = "send_daily_digest"
                  => /\ triggers[j].hour = 9 /\ triggers[j].minute = 0
                     /\ triggers[j].days = 0..6
                     /\ triggers[j].data = None
        /\ PersistedEvents = << >> => Len(triggers) = 1

\* The data file is missing and the daily digest is the one trigger.
C10_Witness ==
    /\ pc = "running"
    /\ ~files[DATA_FILE].exists
    /\ Len(triggers) = 1
    /\ triggers[1].callback = "send_daily_digest"

---------------------------------------------------------------------------
(* Properties of the running bot (specifications Spec and StoreSpec) *)

PersistedSubscribers == Get(load_data(files), "subscribers", << >>)

\* The label of weekday index wd, Monday=0 ... Sunday=6.
LabelOfWeekday(wd) == CHOOSE l \in DayStrs : WeekdayIndexOf(l) = wd

\* C4: no chat occurs twice in the persisted subscribers list, and a /start
\* of a chat that is already in the list does not call save_data.
C4_SubscribersStayUnique ==
    /\ \A a, b \in 1..Len(PersistedSubscribers) :
          PersistedSubscribers[a] = PersistedSubscribers[b] => a = b
    /\ (cmd.pc # "idle" /\ cmd.member) => (~cmd.wrote /\ cmd.pc = "reply")

\* Two chats are subscribed, the second of them by a /start, and that chat has
\* sent /start again: the handler is at its reply and has not saved.
C4_Witness ==
    /\ Len(PersistedSubscribers) = 2
    /\ cmd.pc = "reply" /\ cmd.member /\ ~cmd.wrote
    /\ cmd.chat = PersistedSubscribers[2]

\* C5: whatever sends fail, the attempts of a fire are the subscribers read at
\* that fire, one attempt each, in list order, each with the message of the
\* fire; no exception leaves the callback.
C5_SendFailureIsIsolated ==
    /\ fire.pc \in {"none", "sending", "done"}
    /\ fire.pc \in {"sending", "done"} =>
          /\ Len(sent) <= Len(fire.subs)
          /\ \A k \in 1..Len(sent) :
                sent[k].chat = fire.subs[k] /\ sent[k].text = fire.msg
    /\ fire.pc = "sending" => (fire.ran /\ Len(sent) < Len(fire.subs))
    /\ (fire.pc = "done" /\ fire.ran) => Len(sent) = Len(fire.subs)

\* Subscribers [111, 222]: the send to 111 failed and 222 got its message.
C5_Witness ==
    /\ fire.pc = "done" /\ fire.subs = <<111, 222>>
    /\ Len(sent) = 2
    /\ sent[1].chat = 111 /\ ~sent[1].ok
    /\ sent[2].chat = 222 /\ sent[2].ok

\* C6: a load_data at any point of a save_data returns the complete previous
\* document or the complete new one: every file operation of save_data, also
\* one that fails, leaves what load_data returns as it was, except os.replace,
\* which makes it the document being saved, whole.
C6_SaveIsAtomicForReaders ==
    [][ io' # io =>
            \/ load_data(files') = load_data(files)
            \/ /\ io.pc = "replace" /\ io'.pc = "done"
               /\ load_data(files') = io.new
      ]_vars

\* A write has failed midway: the temporary file holds a cut-off text and
\* load_data still returns the (non-empty) document of before.
C6_Witness ==
    /\ io.pc = "failed"
    /\ files[tmp_path].exists
    /\ Len(files[tmp_path].text) >= 2
    /\ ~json_load(files[tmp_path].text).ok
    /\ DOMAIN io.old # {}
    /\ load_data(files) = io.old

\* C7: when save_data(D) has made its last file operation and returns,
\* load_data() returns D, whatever the store held before.
C7_SaveThenLoadReturnsSaved ==
    [][ (io.pc \in {"open", "write", "replace"} /\ io'.pc \in {"done", "failed"}) =>
            load_data(files') = io.new
      ]_vars

\* C8: a reminder fire with at least one persisted subscriber sends the
\* reminder built from the trigger's payload to every subscriber.
C8_ReminderAlwaysSends ==
    (fire.pc = "done" /\ fire.kind = "reminder" /\ fire.subs # << >>) =>
        /\ Len(sent) = Len(fire.subs)
        /\ \A k \in 1..Len(sent) :
              /\ sent[k].chat = fire.subs[k]
              /\ sent[k].text.tmpl = "reminder"
              /\ Some([title |-> sent[k].text.title, time |-> sent[k].text.time,
                        description |-> sent[k].text.description])
                    = triggers[fire.job].data

\* C9: a digest fire sends only when the table persisted at the moment of
\* the fire has an entry for the label of the current weekday, and then every
\* send of the fire carries exactly that entry, also when the table is edited
\* while the sends are under way; with no entry the fire ends with no send
\* and no error.
C9_DigestSendsTodaysEntry ==
    [][ /\ (fire.pc = "none" /\ fire'.kind = "digest") =>
              LET table == Get(load_data(files), "digests", EmptyDict)
                  label == LabelOfWeekday(fire'.today)
              IN  /\ fire'.pc \in {"sending", "done"}
                  /\ label \notin DOMAIN table =>
                        (fire'.pc = "done" /\ ~fire'.ran /\ sent' = << >>)
                  /\ fire'.ran =>
                        /\ label \in DOMAIN table
                        /\ fire'.msg.tmpl = "digest"
                        /\ fire'.msg.body = table[label]
        /\ (fire.kind = "digest" /\ sent' # sent /\ sent' # << >>) =>
              /\ fire.ran
              /\ sent' = Append(sent, sent'[Len(sent')])
              /\ sent'[Len(sent')].text = fire.msg
      ]_vars

\* On a Monday the entry "Hi" went to both subscribers.
C9_Witness ==
    /\ fire.pc = "done" /\ fire.kind = "digest" /\ fire.today = 0
    /\ Len(sent) = 2
    /\ sent[1].text.body = "Hi" /\ sent[2].text.body = "Hi"

\* C11: the triggers are derived from the store once, at process start, and
\* the recipients of every fire are the subscribers persisted at the fire:
\* once the bot runs no step changes the triggers (not a /start, not an event
\* added to the data file); every fire that has a message (a reminder, or a
\* digest whose table holds a non-empty entry for the day) while subscribers
\* are persisted sends to the list persisted at that moment, each attempt
\* going to the next chat of that list, until the list is through.
C11_TriggersOnceRecipientsAtFire ==
    [][ /\ pc = "running" => triggers' = triggers
        /\ (fire.pc = "none" /\ fire'.pc # "none") =>
              LET table == Get(load_data(files), "digests", EmptyDict)
                  label == LabelOfWeekday(fire'.today)
                  hasMessage == \/ fire'.kind = "reminder"
                                \/ /\ label \in DOMAIN table
                                   /\ table[label] # ""
              IN  (hasMessage /\ PersistedSubscribers # << >>) =>
                      /\ fire'.pc = "sending"
                      /\ fire'.subs = PersistedSubscribers
        /\ (sent' # sent /\ sent' # << >>) =>
              /\ sent' = Append(sent, sent'[Len(sent')])
              /\ sent'[Len(sent')].chat = fire.subs[Len(sent')]
        /\ (fire.pc = "sending" /\ fire'.pc = "done") => Len(sent') = Len(fire.subs)
      ]_vars

\* The value the text of a file holds for a top-level key, whether or not the
\* text parses as a whole.
Stored(f, k) ==
    IF f.exists /\ \E i \in 1..Len(f.text) : f.text[i].key = k
    THEN Some(f.text[CHOOSE i \in 1..Len(f.text) : f.text[i].key = k].val)
    ELSE None

StoredSubscribers(f) ==
    IF Stored(f, "subscribers") = None THEN {} ELSE Range(Stored(f, "subscribers")[1])

OtherKeys == {"company", "team", "contacts", "events", "digests"}

\* C15: /start changes at most the subscribers key of the data file and
\* removes no subscriber, also when the file is missing or does not parse at
\* that moment: every step of the bot (a step of /start, of save_data or of
\* a job callback) leaves the value the file holds for every other key as it
\* was and keeps every subscriber the file held, and the job callbacks do
\* not write the file.
C15_StartChangesOnlySubscribers ==
    [][ /\ <<pc, triggers, cmd, io, fire, sent>>' # <<pc, triggers, cmd, io, fire, sent>> =>
              /\ \A k \in OtherKeys :
                    Stored(files'[DATA_FILE], k) = Stored(files[DATA_FILE], k)
              /\ StoredSubscribers(files[DATA_FILE])
                    \subseteq StoredSubscribers(files'[DATA_FILE])
        /\ (fire' # fire \/ sent' # sent) => files' = files
      ]_vars

====
